---- MODULE Spec2Model ----
(***************************************************************************)
(* Model of backend/server.js: the Express handlers of the food-donation   *)
(* API over the two mongoose collections (users, donations).               *)
(*                                                                         *)
(* Every handler is an async function: it runs without interruption up to  *)
(* each `await` of a store call, and other requests run in between.  A     *)
(* handler is therefore one action per store access; the synchronous code  *)
(* before an access (verifyToken, body validation) and after it (the       *)
(* checks on what was read, the response) belongs to the same action.      *)
(***************************************************************************)
EXTENDS Integers, Sequences, FiniteSets, Bags, TLC

(* ---------------------------------------------------------------- bounds *)
MaxDonations == 2      \* donations ever created
MaxInflight  == 2      \* handlers suspended at an await at the same time

(* ------------------------------------------------------------- constants *)
JWT_SECRET == "your_jwt_secret_key_here_change_in_production"
OtherKey   == "some_other_signing_key"
ExpiresIn  == 24       \* hours: jwt.sign(..., { expiresIn: '24h' })
SaltRounds == 10       \* bcrypt.hash(password, 10)
RecentLimit == 5       \* .limit(5)

Undef == "<undefined>" \* a body field or document path that is not there
NoId  == 0             \* no ObjectId

\* JavaScript's !x for the string-or-undefined values of a request body
Falsy(x) == x = Undef \/ x = ""

(* ---------------------------------------------------------------- inputs *)
Alice == [name |-> "D", email |-> "d@x.com", password |-> "pw1",
          phone |-> "111", userType |-> "donor", address |-> "1 Main St"]
Bob   == [name |-> "R", email |-> "r@x.com", password |-> "pw2",
          phone |-> "222", userType |-> "receiver", address |-> "2 Side St"]
Carol == [name |-> "C", email |-> "c@x.com", password |-> "pw1",
          phone |-> "333", userType |-> "receiver", address |-> "3 Back St"]
\* a second registration for Bob's email, every other field different
Mallory == [name |-> "M", email |-> "r@x.com", password |-> "pw1",
            phone |-> "444", userType |-> "donor", address |-> "4 Far St"]
\* a userType outside the schema's enum
Eve   == [Carol EXCEPT !.userType = "admin"]

RegisterFields == {"name", "email", "password", "phone", "userType", "address"}

RegisterBodies ==
  {Alice, Bob, Carol, Mallory, Eve}
    \cup {[Mallory EXCEPT ![f] = ""] : f \in RegisterFields}
    \cup {[Alice EXCEPT !.address = Undef]}

LoginBodies ==
  [email : {"d@x.com", "r@x.com", "nobody@x.com", ""}, password : {"pw1", "pw2", Undef}]

Bread == [foodName |-> "Bread", quantity |-> "5 loaves", category |-> "Bakery",
          description |-> Undef, pickupAddress |-> "1 Main St",
          expiryTime |-> "2025-01-01T18:00"]
Rice  == [foodName |-> "Rice", quantity |-> "2 kg", category |-> "Grains",
          description |-> "cooked", pickupAddress |-> "1 Main St",
          expiryTime |-> "tonight"]

RequiredDonationFields ==
  {"foodName", "quantity", "category", "pickupAddress", "expiryTime"}

DonationBodies ==
  {Bread} \cup {[Bread EXCEPT ![f] = ""] : f \in RequiredDonationFields}
          \cup {[Rice EXCEPT !.quantity = Undef]}
NoBody == [none |-> TRUE]

UserIds     == 1 .. 3          \* the ids a token may carry
DonationIds == 1 .. MaxDonations   \* the ids a claim request may name

(* -------------------------------------------------- Authorization header *)
\* A header is absent or a string; the handler only looks at
\* header.split(' '), modelled as the sequence of its parts.  A part is a
\* word, the empty string, or a JWT (its signing key and its payload).
Word(w)  == [kind |-> "word", text |-> w, key |-> "", userId |-> NoId, exp |-> 0]
Jwt(k, u, e) == [kind |-> "jwt", text |-> "", key |-> k, userId |-> u, exp |-> e]

NoHeader == [present |-> FALSE, parts |-> << >>]
Header(ps) == [present |-> TRUE, parts |-> ps]

\* tokens signed at time 0 with the server's key, and with another key
GoodTokens   == {Jwt(JWT_SECRET, u, ExpiresIn) : u \in UserIds}
ForgedTokens == {Jwt(OtherKey, 2, ExpiresIn)}

Headers ==
  {NoHeader, Header(<<Word("Bearer")>>), Header(<<Word("Bearer"), Word("")>>),
   Header(<<Word("Bearer"), Word("not.a.jwt")>>)}
    \cup {Header(<<Word("Bearer"), t>>) : t \in GoodTokens \cup ForgedTokens}

(* ------------------------------------------------------------ primitives *)
Salts == {"saltA"}

\* bcrypt.hash(password, 10): a digest holds the cost and the salt it was made with
bcryptHash(password, salt) ==
  [alg |-> "bcrypt", cost |-> SaltRounds, salt |-> salt, of |-> password]

\* faulty variant: only the digest's format is looked at
bcryptCompareFormatOnly(password, digest) ==
  digest.alg = "bcrypt" /\ digest.cost = SaltRounds

\* bcrypt.compare(password, digest): re-hash with the digest's own cost and salt
bcryptCompare(password, digest) ==
  bcryptHash(password, digest.salt) = digest

\* jwt.sign({ userId }, key, { expiresIn: '24h' }) at time `clock`
jwtSign(userId, key, clock) == Jwt(key, userId, clock + ExpiresIn)

\* faulty variant: the expiry is not looked at
jwtVerifyIgnoringExpiry(token, key, clock) ==
  /\ token.kind = "jwt"
  /\ token.key = key

\* jwt.verify(token, key): well-formed, signed with `key`, not yet expired
jwtVerify(token, key, clock) ==
  /\ token.kind = "jwt"
  /\ token.key = key
  /\ clock < token.exp

\* req.headers.authorization?.split(' ')[1]
HeaderToken(h) ==
  IF h.present /\ Len(h.parts) >= 2 THEN h.parts[2] ELSE Word(Undef)

TokenFalsy(token) == token.kind = "word" /\ Falsy(token.text)

\* verifyToken: what the middleware answers, or the userId it passes on
verifyToken(h, clock) ==
  LET token == HeaderToken(h) IN
  IF TokenFalsy(token)
    THEN [ok |-> FALSE, status |-> 401, message |-> "No token provided", userId |-> NoId]
  ELSE IF jwtVerify(token, JWT_SECRET, clock)
    THEN [ok |-> TRUE, status |-> 0, message |-> "", userId |-> token.userId]
  ELSE [ok |-> FALSE, status |-> 401, message |-> "Invalid token", userId |-> NoId]

(* ------------------------------------------------------------ the stores *)
\* users and donations are sequences in insertion order; a document's _id is
\* its position, and createdAt grows with it.
WithIds(docs) == [i \in 1 .. Len(docs) |-> [_id |-> i] @@ docs[i]]

\* .sort({ createdAt: -1 })
SortNewestFirst(docs) == [i \in 1 .. Len(docs) |-> docs[Len(docs) + 1 - i]]

\* User.findOne({ email }): the _id of the user, or NoId
findOneByEmail(us, email) ==
  IF \E i \in 1 .. Len(us) : us[i].email = email
    THEN CHOOSE i \in 1 .. Len(us) : us[i].email = email
    ELSE NoId

\* Model.findById(id): whether the document is there
Exists(docs, id) == id \in 1 .. Len(docs)

UserTypes == {"donor", "receiver"}
Statuses  == {"available", "claimed", "completed"}

\* !name || !email || !password || !phone || !userType || !address
RegisterMissing(body) == \E f \in RegisterFields : Falsy(body[f])

\* !email || !password
LoginMissing(body) == Falsy(body.email) \/ Falsy(body.password)

\* faulty variant: expiryTime is not among the fields checked
DonationMissingSkipsExpiry(body) ==
  \E f \in RequiredDonationFields \ {"expiryTime"} : Falsy(body[f])

\* !foodName || !quantity || !category || !pickupAddress || !expiryTime
DonationMissing(body) == \E f \in RequiredDonationFields : Falsy(body[f])

\* new User({...}) with the hashed password
NewUser(body, digest) == [body EXCEPT !.password = digest]

\* userSchema's validators, run by save(): the enum of userType
UserValid(doc) == doc.userType \in UserTypes

\* faulty variant: the donor's name and phone are swapped
NewDonationSwapped(userId, user, body) ==
  [donorId |-> userId, donorName |-> user.phone, donorPhone |-> user.name,
   foodName |-> body.foodName, quantity |-> body.quantity,
   category |-> body.category, description |-> body.description,
   pickupAddress |-> body.pickupAddress, expiryTime |-> body.expiryTime,
   status |-> "available",
   receiverId |-> NoId, receiverName |-> Undef, receiverPhone |-> Undef]

\* new Donation({...}) in the create handler
NewDonation(userId, user, body) ==
  [donorId |-> userId, donorName |-> user.name, donorPhone |-> user.phone,
   foodName |-> body.foodName, quantity |-> body.quantity,
   category |-> body.category, description |-> body.description,
   pickupAddress |-> body.pickupAddress, expiryTime |-> body.expiryTime,
   status |-> "available",
   receiverId |-> NoId, receiverName |-> Undef, receiverPhone |-> Undef]

\* faulty variant: the claim moves the donation to the third status of the enum
ClaimAssignCompleted(doc, userId, user) ==
  [doc EXCEPT !.status = "completed", !.receiverId = userId,
              !.receiverName = user.name, !.receiverPhone = user.phone]

\* the four assignments of the claim handler on the document it loaded
ClaimAssign(doc, userId, user) ==
  [doc EXCEPT !.status = "claimed", !.receiverId = userId,
              !.receiverName = user.name, !.receiverPhone = user.phone]

\* donation.save() of a loaded document: $set of the paths the handler
\* modified, on the stored document of that _id, whatever it holds by now
SaveModified(stored, doc) ==
  [stored EXCEPT !.status = doc.status, !.receiverId = doc.receiverId,
                 !.receiverName = doc.receiverName,
                 !.receiverPhone = doc.receiverPhone]

\* faulty variant: the filter on the status is left out
FindEvery(ds) == SortNewestFirst(WithIds(ds))

\* Donation.find({ status: 'available' }).sort({ createdAt: -1 })
FindAvailable(ds) ==
  SortNewestFirst(SelectSeq(WithIds(ds), LAMBDA d : d.status = "available"))

\* Donation.find({ donorId }).sort({ createdAt: -1 })
FindByDonor(ds, userId) ==
  SortNewestFirst(SelectSeq(WithIds(ds), LAMBDA d : d.donorId = userId))

\* Donation.find({ receiverId }).sort({ createdAt: -1 })
FindByReceiver(ds, userId) ==
  SortNewestFirst(SelectSeq(WithIds(ds), LAMBDA d : d.receiverId = userId))

\* Model.countDocuments({ field: value })
CountWhere(docs, field, value) ==
  Cardinality({i \in 1 .. Len(docs) : docs[i][field] = value})

\* Donation.find().sort({ createdAt: -1 }).limit(5), mapped to recentActivity
RecentActivity(ds) ==
  LET sorted == SortNewestFirst(ds)
      n == IF Len(sorted) < RecentLimit THEN Len(sorted) ELSE RecentLimit
  IN [i \in 1 .. n |->
        [action |-> <<sorted[i].donorName, " donated ", sorted[i].foodName,
                      " - Status: ", sorted[i].status>>,
         timestamp |-> Len(ds) + 1 - i]]

(* ----------------------------------------------------------------- state *)
VARIABLES
  users,      \* the users collection
  donations,  \* the donations collection
  inflight,   \* the handlers suspended at an await (a bag), with their locals
  now,        \* the clock, in hours
  resp,       \* the answer written in this turn, with the request it answers
  okClaims    \* per donation id, the number of 200 answers to claim requests

vars == <<users, donations, inflight, now, resp, okClaims>>

\* the turn wrote no answer: the handler is suspended at its next await
NoResp == [route |-> "none"]

\* turn: 1 for the turn in which the request arrived, 2.. for the later ones
Resp(route, turn, auth, userId, body, id, status, message, data) ==
  [route |-> route, turn |-> turn, auth |-> auth, userId |-> userId,
   body |-> body, id |-> id, status |-> status, message |-> message,
   data |-> data]

NoData == [none |-> TRUE]
NoDoc  == [none |-> TRUE]

Handlers == BagToSet(inflight)
Suspend(h) == inflight (+) SetToBag({h})
Resume(h)  == inflight (-) SetToBag({h})
CanSuspend == BagCardinality(inflight) < MaxInflight

CreatesInFlight ==
  BagCardinality([h \in {x \in Handlers : x.kind = "create"} |-> inflight[h]])

\* A stats handler between its first and last count of a collection notes a
\* write to that collection made meanwhile (pc is the step it runs next).
NoteWrite(bag, pcs, flag) ==
  LET hit == {h \in BagToSet(bag) : h.kind = "stats" /\ h.pc \in pcs}
  IN IF hit = {} THEN bag
     ELSE LET h == CHOOSE x \in hit : TRUE
          IN (bag (-) SetToBag({h})) (+) SetToBag({[h EXCEPT ![flag] = TRUE]})

NoteDonationWrite(bag) == NoteWrite(bag, {2, 3}, "donationsWritten")
NoteUserWrite(bag)     == NoteWrite(bag, {5, 6}, "usersWritten")

\* the answer of a turn that leaves the handler table alone
Answer(r) == resp' = r /\ UNCHANGED inflight

\* an empty database
Init ==
  /\ users = << >>
  /\ donations = << >>
  /\ inflight = EmptyBag
  /\ now = 0
  /\ resp = NoResp
  /\ okClaims = [d \in DonationIds |-> 0]

\* res.json(...) ends the turn of the event loop: the answer is on the wire
Sent ==
  /\ resp # NoResp
  /\ resp' = NoResp
  /\ UNCHANGED <<users, donations, inflight, now, okClaims>>

\* time passes; once every token of Headers has expired the clock no longer
\* matters
Tick ==
  /\ resp = NoResp
  /\ now < ExpiresIn
  /\ now' = now + 24
  /\ UNCHANGED <<users, donations, inflight, resp, okClaims>>

(* ------------------------------------------------------ POST /api/register *)
\* up to the await of User.findOne, and what follows when it answers
RegisterFind(Bodies) ==
  \E body \in Bodies :
    /\ resp = NoResp
    /\ IF RegisterMissing(body)
         THEN Answer(Resp("register", 1, NoHeader, NoId, body, NoId, 400,
                          "All fields are required", NoData))
       ELSE IF findOneByEmail(users, body.email) # NoId
         THEN Answer(Resp("register", 1, NoHeader, NoId, body, NoId, 400,
                          "User already exists with this email", NoData))
       ELSE /\ CanSuspend
            /\ inflight' = Suspend([kind |-> "register", body |-> body])
            /\ resp' = NoResp
    /\ UNCHANGED <<users, donations, now, okClaims>>

\* bcrypt.hash, new User, user.save(): the schema's validation, then the insert
\* under the unique index on email; a failure of either is caught as a 500
RegisterSave ==
  \E h \in Handlers, salt \in Salts :
    /\ resp = NoResp
    /\ h.kind = "register"
    /\ LET user == NewUser(h.body, bcryptHash(h.body.password, salt))
       IN IF ~UserValid(user) \/ findOneByEmail(users, user.email) # NoId
            THEN /\ resp' = Resp("register", 2, NoHeader, NoId, h.body, NoId, 500,
                                 "Server error during registration", NoData)
                 /\ users' = users
                 /\ inflight' = Resume(h)
            ELSE /\ users' = Append(users, user)
                 /\ resp' = Resp("register", 2, NoHeader, NoId, h.body, NoId, 201,
                                 "User registered successfully",
                                 [id |-> Len(users) + 1, name |-> user.name,
                                  email |-> user.email, userType |-> user.userType])
                 /\ inflight' = NoteUserWrite(Resume(h))
    /\ UNCHANGED <<donations, now, okClaims>>

(* --------------------------------------------------------- POST /api/login *)
Login(Bodies) ==
  \E body \in Bodies :
    /\ resp = NoResp
    /\ LET id == findOneByEmail(users, body.email) IN
       IF LoginMissing(body)
         THEN resp' = Resp("login", 1, NoHeader, NoId, body, NoId, 400,
                           "Email and password are required", NoData)
       ELSE IF id = NoId
         THEN resp' = Resp("login", 1, NoHeader, NoId, body, NoId, 400,
                           "Invalid email or password", NoData)
       ELSE IF ~bcryptCompare(body.password, users[id].password)
         THEN resp' = Resp("login", 1, NoHeader, NoId, body, NoId, 400,
                           "Invalid email or password", NoData)
       ELSE resp' = Resp("login", 1, NoHeader, id, body, NoId, 200, "",
                         [token |-> jwtSign(id, JWT_SECRET, now),
                          user |-> [id |-> id, name |-> users[id].name,
                                    email |-> users[id].email,
                                    userType |-> users[id].userType,
                                    phone |-> users[id].phone,
                                    address |-> users[id].address]])
    /\ UNCHANGED <<users, donations, inflight, now, okClaims>>

(* ----------------------------------------------------- POST /api/donations *)
\* verifyToken, the body check, and User.findById with what follows it
\* (resp records of the request what the handler has read of it: a 401 is
\* written before req.body is looked at)
CreateFindUser(Hs, Bodies) ==
  \E h \in Hs :
    /\ resp = NoResp
    /\ LET v == verifyToken(h, now) IN
       IF ~v.ok
         THEN Answer(Resp("create", 1, h, NoId, NoBody, NoId, v.status, v.message, NoData))
       ELSE \E body \in Bodies :
         IF DonationMissing(body)
           THEN Answer(Resp("create", 1, h, v.userId, body, NoId, 400,
                            "All required fields must be filled", NoData))
         ELSE IF ~Exists(users, v.userId)
           THEN Answer(Resp("create", 1, h, v.userId, body, NoId, 404,
                            "User not found", NoData))
         ELSE IF users[v.userId].userType # "donor"
           THEN Answer(Resp("create", 1, h, v.userId, body, NoId, 403,
                            "Only donors can create donations", NoData))
         ELSE /\ CanSuspend
              /\ Len(donations) + CreatesInFlight < MaxDonations
              /\ inflight' = Suspend([kind |-> "create", auth |-> h,
                                      userId |-> v.userId,
                                      user |-> [name |-> users[v.userId].name,
                                                phone |-> users[v.userId].phone],
                                      body |-> body])
              /\ resp' = NoResp
    /\ UNCHANGED <<users, donations, now, okClaims>>

\* new Donation({...}) and donation.save()
CreateSave ==
  \E h \in Handlers :
    /\ resp = NoResp
    /\ h.kind = "create"
    /\ LET donation == NewDonation(h.userId, h.user, h.body) IN
       /\ donations' = Append(donations, donation)
       /\ resp' = Resp("create", 2, h.auth, h.userId, h.body, Len(donations) + 1,
                       201, "Donation created successfully", donation)
    /\ inflight' = NoteDonationWrite(Resume(h))
    /\ UNCHANGED <<users, now, okClaims>>

(* ------------------------------------------------------ GET /api/donations *)
ListAvailable ==
  /\ resp = NoResp
  /\ resp' = Resp("list", 1, NoHeader, NoId, NoBody, NoId, 200, "",
                  FindAvailable(donations))
  /\ UNCHANGED <<users, donations, inflight, now, okClaims>>

(* ----------------------------------------- GET /api/donations/my-donations *)
MyFindUser(Hs) ==
  \E h \in Hs :
    /\ resp = NoResp
    /\ LET v == verifyToken(h, now) IN
       IF ~v.ok
         THEN Answer(Resp("my", 1, h, NoId, NoBody, NoId, v.status, v.message, NoData))
       ELSE IF ~Exists(users, v.userId)
         THEN Answer(Resp("my", 1, h, v.userId, NoBody, NoId, 404,
                          "User not found", NoData))
       ELSE IF users[v.userId].userType # "donor"
         THEN Answer(Resp("my", 1, h, v.userId, NoBody, NoId, 403,
                          "Only donors can view their donations", NoData))
       ELSE /\ CanSuspend
            /\ inflight' = Suspend([kind |-> "my", auth |-> h, userId |-> v.userId])
            /\ resp' = NoResp
    /\ UNCHANGED <<users, donations, now, okClaims>>

MyList ==
  \E h \in Handlers :
    /\ resp = NoResp
    /\ h.kind = "my"
    /\ resp' = Resp("my", 2, h.auth, h.userId, NoBody, NoId, 200, "",
                    FindByDonor(donations, h.userId))
    /\ inflight' = Resume(h)
    /\ UNCHANGED <<users, donations, now, okClaims>>

(* ------------------------------------------- PUT /api/donations/:id/claim *)
\* verifyToken and User.findById with what follows it
\* (req.params.id is not read before Donation.findById)
ClaimFindUser(Hs, Ids) ==
  \E h \in Hs :
    /\ resp = NoResp
    /\ LET v == verifyToken(h, now) IN
       IF ~v.ok
         THEN Answer(Resp("claim", 1, h, NoId, NoBody, NoId, v.status, v.message, NoData))
       ELSE IF ~Exists(users, v.userId)
         THEN Answer(Resp("claim", 1, h, v.userId, NoBody, NoId, 404,
                          "User not found", NoData))
       ELSE IF users[v.userId].userType # "receiver"
         THEN Answer(Resp("claim", 1, h, v.userId, NoBody, NoId, 403,
                          "Only receivers can claim donations", NoData))
       ELSE \E id \in Ids :
            /\ CanSuspend
            /\ inflight' = Suspend([kind |-> "claim", pc |-> "findDonation",
                                    auth |-> h, userId |-> v.userId,
                                    user |-> [name |-> users[v.userId].name,
                                              phone |-> users[v.userId].phone],
                                    id |-> id, doc |-> NoDoc])
            /\ resp' = NoResp
    /\ UNCHANGED <<users, donations, now, okClaims>>

\* Donation.findById and the check of the status it read
ClaimFindDonation ==
  \E h \in Handlers :
    /\ resp = NoResp
    /\ h.kind = "claim" /\ h.pc = "findDonation"
    /\ IF ~Exists(donations, h.id)
         THEN /\ resp' = Resp("claim", 2, h.auth, h.userId, NoBody, h.id, 404,
                              "Donation not found", NoData)
              /\ inflight' = Resume(h)
       ELSE IF donations[h.id].status # "available"
         THEN /\ resp' = Resp("claim", 2, h.auth, h.userId, NoBody, h.id, 400,
                              "This donation is no longer available", NoData)
              /\ inflight' = Resume(h)
       ELSE /\ inflight' = Resume(h) (+)
                 SetToBag({[h EXCEPT !.pc = "save", !.doc = donations[h.id]]})
            /\ resp' = NoResp
    /\ UNCHANGED <<users, donations, now, okClaims>>

\* the four assignments and donation.save()
ClaimSave ==
  \E h \in Handlers :
    /\ resp = NoResp
    /\ h.kind = "claim" /\ h.pc = "save"
    /\ LET doc == ClaimAssign(h.doc, h.userId, h.user) IN
       /\ donations' = [donations EXCEPT ![h.id] = SaveModified(@, doc)]
       /\ resp' = Resp("claim", 3, h.auth, h.userId, NoBody, h.id, 200,
                       "Donation claimed successfully", doc)
    /\ okClaims' = [okClaims EXCEPT ![h.id] = @ + 1]
    /\ inflight' = NoteDonationWrite(Resume(h))
    /\ UNCHANGED <<users, now>>

(* ---------------------------------------------- GET /api/donations/claimed *)
ClaimedFindUser(Hs) ==
  \E h \in Hs :
    /\ resp = NoResp
    /\ LET v == verifyToken(h, now) IN
       IF ~v.ok
         THEN Answer(Resp("claimed", 1, h, NoId, NoBody, NoId, v.status, v.message, NoData))
       ELSE IF ~Exists(users, v.userId)
         THEN Answer(Resp("claimed", 1, h, v.userId, NoBody, NoId, 404,
                          "User not found", NoData))
       ELSE IF users[v.userId].userType # "receiver"
         THEN Answer(Resp("claimed", 1, h, v.userId, NoBody, NoId, 403,
                          "Only receivers can view claimed items", NoData))
       ELSE /\ CanSuspend
            /\ inflight' = Suspend([kind |-> "claimed", auth |-> h, userId |-> v.userId])
            /\ resp' = NoResp
    /\ UNCHANGED <<users, donations, now, okClaims>>

ClaimedList ==
  \E h \in Handlers :
    /\ resp = NoResp
    /\ h.kind = "claimed"
    /\ resp' = Resp("claimed", 2, h.auth, h.userId, NoBody, NoId, 200, "",
                    FindByReceiver(donations, h.userId))
    /\ inflight' = Resume(h)
    /\ UNCHANGED <<users, donations, now, okClaims>>

(* ---------------------------------------------------------- GET /api/stats *)
\* the first countDocuments; one stats handler is followed at a time
StatsStart ==
  /\ resp = NoResp
  /\ CanSuspend
  /\ \A h \in Handlers : h.kind # "stats"
  /\ inflight' = Suspend([kind |-> "stats", pc |-> 2,
                          totalDonations |-> Len(donations),
                          activeDonations |-> 0, claimedDonations |-> 0,
                          totalUsers |-> 0, donors |-> 0, receivers |-> 0,
                          donationsWritten |-> FALSE, usersWritten |-> FALSE])
  /\ resp' = NoResp
  /\ UNCHANGED <<users, donations, now, okClaims>>

\* faulty variant: the third count filters on 'completed'
StatsReadCompleted(h) ==
  CASE h.pc = 2 -> [h EXCEPT !.pc = 3, !.activeDonations =
                      CountWhere(donations, "status", "available")]
    [] h.pc = 3 -> [h EXCEPT !.pc = 4, !.claimedDonations =
                      CountWhere(donations, "status", "completed")]
    [] h.pc = 4 -> [h EXCEPT !.pc = 5, !.totalUsers = Len(users)]
    [] h.pc = 5 -> [h EXCEPT !.pc = 6, !.donors =
                      CountWhere(users, "userType", "donor")]
    [] h.pc = 6 -> [h EXCEPT !.pc = 7, !.receivers =
                      CountWhere(users, "userType", "receiver")]

\* the value the handler's pc-th await reads into its local
StatsRead(h) ==
  CASE h.pc = 2 -> [h EXCEPT !.pc = 3, !.activeDonations =
                      CountWhere(donations, "status", "available")]
    [] h.pc = 3 -> [h EXCEPT !.pc = 4, !.claimedDonations =
                      CountWhere(donations, "status", "claimed")]
    [] h.pc = 4 -> [h EXCEPT !.pc = 5, !.totalUsers = Len(users)]
    [] h.pc = 5 -> [h EXCEPT !.pc = 6, !.donors =
                      CountWhere(users, "userType", "donor")]
    [] h.pc = 6 -> [h EXCEPT !.pc = 7, !.receivers =
                      CountWhere(users, "userType", "receiver")]

\* the second to sixth countDocuments
StatsCount ==
  \E h \in Handlers :
    /\ resp = NoResp
    /\ h.kind = "stats" /\ h.pc \in 2 .. 6
    /\ inflight' = Resume(h) (+) SetToBag({StatsRead(h)})
    /\ resp' = NoResp
    /\ UNCHANGED <<users, donations, now, okClaims>>

\* Donation.find().sort().limit(5).select(...) and res.json
StatsAnswer ==
  \E h \in Handlers :
    /\ resp = NoResp
    /\ h.kind = "stats" /\ h.pc = 7
    /\ resp' = Resp("stats", 7, NoHeader, NoId, NoBody, NoId, 200, "",
                    [totalDonations |-> h.totalDonations,
                     activeDonations |-> h.activeDonations,
                     claimedDonations |-> h.claimedDonations,
                     totalUsers |-> h.totalUsers,
                     donors |-> h.donors,
                     receivers |-> h.receivers,
                     recentActivity |-> RecentActivity(donations)])
               @@ [noted |-> [donations |-> h.donationsWritten,
                              users |-> h.usersWritten]]
    /\ inflight' = Resume(h)
    /\ UNCHANGED <<users, donations, now, okClaims>>

(* -------------------------------------------------------- specifications *)
\* The whole server, from an empty database.
Next ==
  \/ Sent
  \/ Tick
  \/ RegisterFind(RegisterBodies)
  \/ RegisterSave
  \/ Login(LoginBodies)
  \/ CreateFindUser(Headers, DonationBodies)
  \/ CreateSave
  \/ ListAvailable
  \/ MyFindUser(Headers)
  \/ MyList
  \/ ClaimFindUser(Headers, DonationIds)
  \/ ClaimFindDonation
  \/ ClaimSave
  \/ ClaimedFindUser(Headers)
  \/ ClaimedList
  \/ StatsStart
  \/ StatsCount
  \/ StatsAnswer

Spec == Init /\ [][Next]_vars

\* The account routes, from an empty database.
NextAccounts ==
  \/ Sent
  \/ Tick
  \/ RegisterFind(RegisterBodies)
  \/ RegisterSave
  \/ Login(LoginBodies)

SpecAccounts == Init /\ [][NextAccounts]_vars

Registered(body) == NewUser(body, bcryptHash(body.password, "saltA"))
TokenOf(u) == Header(<<Word("Bearer"), jwtSign(u, JWT_SECRET, 0)>>)

\* The database after Alice, Bob and Carol have registered, in that order:
\* user 1 is a donor, users 2 and 3 are receivers.
InitLifecycle ==
  /\ users = <<Registered(Alice), Registered(Bob), Registered(Carol)>>
  /\ donations = << >>
  /\ inflight = EmptyBag
  /\ now = 0
  /\ resp = NoResp
  /\ okClaims = [d \in DonationIds |-> 0]

\* The routes of the donation lifecycle over these three users, each with the
\* token login gave them at time 0.
NextLifecycle ==
  \/ Sent
  \/ CreateFindUser({TokenOf(1), TokenOf(2), TokenOf(3)}, {Bread})
  \/ CreateSave
  \/ ListAvailable
  \/ ClaimFindUser({TokenOf(1), TokenOf(2), TokenOf(3)}, DonationIds)
  \/ ClaimFindDonation
  \/ ClaimSave

SpecLifecycle == InitLifecycle /\ [][NextLifecycle]_vars

\* The database after Alice and Bob have registered: user 1 is a donor,
\* user 2 a receiver, and no user 3 exists.
InitAuth ==
  /\ users = <<Registered(Alice), Registered(Bob)>>
  /\ donations = << >>
  /\ inflight = EmptyBag
  /\ now = 0
  /\ resp = NoResp
  /\ okClaims = [d \in DonationIds |-> 0]

\* The four protected routes under every header and body, while time passes.
NextAuth ==
  \/ Sent
  \/ Tick
  \/ CreateFindUser(Headers, DonationBodies)
  \/ CreateSave
  \/ MyFindUser(Headers)
  \/ MyList
  \/ ClaimFindUser(Headers, DonationIds)
  \/ ClaimFindDonation
  \/ ClaimSave
  \/ ClaimedFindUser(Headers)
  \/ ClaimedList

SpecAuth == InitAuth /\ [][NextAuth]_vars

\* The stats route beside the requests that write, over the database of
\* InitAuth: Carol registers, Alice donates bread, Bob claims the first
\* donation.
NextStats ==
  \/ Sent
  \/ StatsStart
  \/ StatsCount
  \/ StatsAnswer
  \/ RegisterFind({Carol})
  \/ RegisterSave
  \/ CreateFindUser({TokenOf(1)}, {Bread})
  \/ CreateSave
  \/ ClaimFindUser({TokenOf(2)}, {1})
  \/ ClaimFindDonation
  \/ ClaimSave

SpecStats == InitAuth /\ [][NextStats]_vars

(* ------------------------------------------------- vocabulary of the claims *)
ProtectedRoutes == {"create", "my", "claim", "claimed"}

\* a body field that is missing or empty
Blank(x) == x \in {"", Undef}
CreateIncomplete(body) ==
  \/ Blank(body.foodName) \/ Blank(body.quantity) \/ Blank(body.category)
  \/ Blank(body.pickupAddress) \/ Blank(body.expiryTime)
RegisterIncomplete(body) ==
  \/ Blank(body.name) \/ Blank(body.email) \/ Blank(body.password)
  \/ Blank(body.phone) \/ Blank(body.userType) \/ Blank(body.address)
LoginIncomplete(body) == Blank(body.email) \/ Blank(body.password)

HasToken(h) == h.present /\ Len(h.parts) >= 2 /\ h.parts[2] # Word("")
TokenAbsent(h)    == ~HasToken(h)
TokenMalformed(h) == HasToken(h) /\ h.parts[2].kind # "jwt"
TokenWrongKey(h)  == HasToken(h) /\ h.parts[2].kind = "jwt" /\ h.parts[2].key # JWT_SECRET
TokenExpired(h, clock) ==
  HasToken(h) /\ h.parts[2].kind = "jwt" /\ h.parts[2].exp <= clock
BadToken(h, clock) ==
  TokenAbsent(h) \/ TokenMalformed(h) \/ TokenWrongKey(h) \/ TokenExpired(h, clock)

\* the request carries a token of the server for a stored user of this role
AuthenticatedAs(h, clock, role) ==
  /\ ~BadToken(h, clock)
  /\ h.parts[2].userId \in 1 .. Len(users)
  /\ users[h.parts[2].userId].userType = role

\* a handler that verifyToken has just let through
FreshProtected(h) ==
  \/ h.kind \in {"create", "my", "claimed"}
  \/ h.kind = "claim" /\ h.pc = "findDonation"

StoredIds == 1 .. Len(donations)
ReceiverOf(d) == <<d.receiverId, d.receiverName, d.receiverPhone>>
DonorOf(d)    == <<d.donorId, d.donorName, d.donorPhone>>
FoodOf(d)     == <<d.foodName, d.quantity, d.category, d.description,
                   d.pickupAddress, d.expiryTime>>
IdentityOf(u) == <<u, users[u].name, users[u].phone>>

(* ------------------------------------------------------------------- C1 *)
\* C1: of the claim requests on one donation exactly one is answered 200, and
\* the donation then is claimed and carries that caller's id, name and phone;
\* every other one is answered 400 'no longer available'.
C1_ExactlyOneClaimSucceeds ==
  /\ \A d \in DonationIds : okClaims[d] <= 1
  /\ \A d \in StoredIds :
       /\ okClaims[d] = 1 <=> donations[d].status = "claimed"
  /\ resp.route = "claim" /\ resp.status = 200 =>
       /\ donations[resp.id].status = "claimed"
       /\ ReceiverOf(donations[resp.id]) = IdentityOf(resp.userId)

EmailHeld(email) == \E i \in 1 .. Len(users) : users[i].email = email

\* C3: no two stored users share an email, and a register request (with all
\* its fields) that does not create a user while its email is held by a stored
\* user is answered 400 'User already exists with this email'.
C3_DuplicateEmailIsConflict ==
  /\ \A i, j \in 1 .. Len(users) : users[i].email = users[j].email => i = j
  /\ resp.route = "register" /\ ~RegisterIncomplete(resp.body)
       /\ resp.status # 201 /\ EmailHeld(resp.body.email)
     => resp.status = 400 /\ resp.message = "User already exists with this email"

(* ------------------------------------------------------------------- C4 *)
\* C4: a stored donation is available or claimed, never completed; a donation
\* enters the store as available; a status changes only from available to
\* claimed, in the turn that answers 200 to the claim request of a receiver;
\* nothing leaves the store.
C4_StatusLifecycle ==
  /\ [](\A d \in StoredIds : donations[d].status \in {"available", "claimed"})
  /\ [][/\ Len(donations') >= Len(donations)
        /\ \A d \in 1 .. Len(donations') :
             IF d > Len(donations)
               THEN donations'[d].status = "available"
               ELSE donations'[d].status # donations[d].status =>
                      /\ donations[d].status = "available"
                      /\ donations'[d].status = "claimed"
                      /\ resp'.route = "claim" /\ resp'.status = 200
                      /\ resp'.id = d
                      /\ users[resp'.userId].userType = "receiver"]_vars

C4_Witness ==
  /\ resp.route = "claim" /\ resp.status = 200
  /\ donations[resp.id].status = "claimed"
  /\ \E d \in StoredIds : donations[d].status = "available"

(* ------------------------------------------------------------------- C5 *)
\* C5: a donation has no receiver id, name and phone exactly while it is
\* available, and once it has them no step changes them.
C5_ReceiverSetOnce ==
  /\ [](\A d \in StoredIds :
          /\ donations[d].status = "available" <=> donations[d].receiverId = NoId
          /\ donations[d].receiverId = NoId <=> donations[d].receiverName = Undef
          /\ donations[d].receiverId = NoId <=> donations[d].receiverPhone = Undef)
  /\ [][\A d \in StoredIds :
          donations[d].receiverId # NoId =>
            ReceiverOf(donations'[d]) = ReceiverOf(donations[d])]_vars

(* ------------------------------------------------------------------- C6 *)
ListedIds == {resp.data[i]._id : i \in 1 .. Len(resp.data)}

\* C6: the list-available answer holds each stored donation that is available
\* at the read exactly once, as stored, and nothing else; in particular no
\* donation for which a claim request was answered 200.
C6_ListIsTheAvailable ==
  resp.route = "list" =>
    /\ ListedIds = {d \in StoredIds : donations[d].status = "available"}
    /\ Len(resp.data) = Cardinality(ListedIds)
    /\ \A i \in 1 .. Len(resp.data) :
         /\ resp.data[i].status = "available"
         /\ resp.data[i] = [_id |-> resp.data[i]._id] @@ donations[resp.data[i]._id]
    /\ \A d \in DonationIds : okClaims[d] > 0 => d \notin ListedIds

C6_Witness ==
  /\ resp.route = "list"
  /\ Len(resp.data) = 1
  /\ \E d \in StoredIds : donations[d].status = "claimed" /\ okClaims[d] > 0

(* ------------------------------------------------------------------- C7 *)
\* C7: in the turn a request to a protected route arrives it is answered 401
\* exactly when its token is absent, malformed, signed with another key or
\* expired; an absent token is answered 'No token provided' (the check made
\* before any verification); a 401 leaves the users, the donations and the
\* suspended handlers as they were, and a handler is suspended for a
\* protected route only for a request whose token verifies.
C7_BadTokenIsUnauthenticated ==
  /\ [][resp'.route \in ProtectedRoutes /\ resp'.turn = 1 =>
          /\ resp'.status = 401 <=> BadToken(resp'.auth, now)
          /\ TokenAbsent(resp'.auth) => resp'.message = "No token provided"
          /\ BadToken(resp'.auth, now) /\ ~TokenAbsent(resp'.auth)
               => resp'.message = "Invalid token"
          /\ resp'.status = 401 =>
               UNCHANGED <<users, donations, inflight, okClaims>>]_vars
  /\ [][\A h \in BagToSet(inflight') :
          CopiesIn(h, inflight') > CopiesIn(h, inflight) /\ FreshProtected(h)
            => ~BadToken(h.auth, now)]_vars

C7_Witness ==
  /\ resp.route = "claim" /\ resp.turn = 1 /\ resp.status = 401
  /\ TokenExpired(resp.auth, now)
  /\ \E d \in StoredIds : donations[d].status = "available"

(* ------------------------------------------------------------------- C8 *)
Observable(r) == [status |-> r.status, message |-> r.message, data |-> r.data]

WrongPassword(body) ==
  \E i \in 1 .. Len(users) :
    users[i].email = body.email /\ users[i].password.of # body.password

\* C8: a login request with a registered email and a wrong password and one
\* with an email no stored user has are answered alike: status 400, message
\* 'Invalid email or password', no token and no user.
C8_LoginFailuresAlike ==
  resp.route = "login" /\ ~LoginIncomplete(resp.body)
    /\ (WrongPassword(resp.body) \/ ~EmailHeld(resp.body.email))
  => Observable(resp) =
       [status |-> 400, message |-> "Invalid email or password", data |-> NoData]

C8_Witness ==
  /\ resp.route = "login" /\ ~LoginIncomplete(resp.body)
  /\ WrongPassword(resp.body)
  /\ resp.status = 400

(* ------------------------------------------------------------------- C9 *)
\* C9: a donation's donor id, name and phone are those of the stored donor
\* who created it; no step changes the donor identity or the food attributes
\* of a stored donation; a turn that answers a claim request with 401, 403,
\* 404 or 400 leaves the donations as they were, and no turn of a claim
\* request adds a donation.
C9_DonorAndFoodFrame ==
  /\ [](\A d \in StoredIds :
          /\ donations[d].donorId \in 1 .. Len(users)
          /\ users[donations[d].donorId].userType = "donor"
          /\ DonorOf(donations[d]) = IdentityOf(donations[d].donorId))
  /\ [][/\ \A d \in StoredIds :
             /\ d \in 1 .. Len(donations')
             /\ DonorOf(donations'[d]) = DonorOf(donations[d])
             /\ FoodOf(donations'[d]) = FoodOf(donations[d])
        /\ resp'.route = "claim" =>
             /\ Len(donations') = Len(donations)
             /\ resp'.status \in {401, 403, 404, 400} => donations' = donations
             /\ resp'.status = 200 =>
                  \A d \in StoredIds : d # resp'.id => donations'[d] = donations[d]]_vars

C9_Witness ==
  /\ resp.route = "claim" /\ resp.status = 400
  /\ donations[resp.id].status = "claimed"
  /\ FoodOf(donations[resp.id]) = FoodOf(NewDonation(1, users[1], Bread))

(* ------------------------------------------------------------------ C10 *)
\* C10 as stated: in every stats answer the two partial counts of each
\* collection add up to its total.
C10_CountsAddUp ==
  resp.route = "stats" =>
    /\ resp.data.activeDonations + resp.data.claimedDonations = resp.data.totalDonations
    /\ resp.data.donors + resp.data.receivers = resp.data.totalUsers

\* C10 as amended: in every stats answer the two partial counts of each
\* collection add up to at least its total, and to exactly its total when no
\* document of that collection was saved between the handler's first and last
\* count of it; no turn of the stats handler changes either collection.
C10_CountsCoverTotal ==
  /\ [](resp.route = "stats" =>
          /\ resp.data.activeDonations + resp.data.claimedDonations
               >= resp.data.totalDonations
          /\ resp.data.donors + resp.data.receivers >= resp.data.totalUsers
          /\ ~resp.noted.donations =>
               resp.data.activeDonations + resp.data.claimedDonations
                 = resp.data.totalDonations
          /\ ~resp.noted.users =>
               resp.data.donors + resp.data.receivers = resp.data.totalUsers)
  /\ [][StatsStart \/ StatsCount \/ StatsAnswer
          => UNCHANGED <<users, donations>>]_vars

C10_Witness ==
  /\ resp.route = "stats"
  /\ resp.noted.donations
  /\ resp.data.activeDonations + resp.data.claimedDonations > resp.data.totalDonations
  /\ resp.data.donors + resp.data.receivers = resp.data.totalUsers

====
